---- MODULE Spec2Model ----
(***************************************************************************)
(* Ingestion core of the process-mining platform: the two upload handlers  *)
(* of scripts/api_server.py, the file processors of                        *)
(* scripts/file_processors_complete.py and the store behind                *)
(* scripts/database.py.                                                    *)
(*                                                                         *)
(* Every call on the store goes through Database.execute, which opens its  *)
(* own connection and commits (or rolls back and re-raises) on its own, so *)
(* one statement is the unit of atomicity and each statement may raise.    *)
(* Upload requests are served independently of each other (the handlers    *)
(* take no lock and read no status before they write it), so the           *)
(* statements of two requests interleave freely.                           *)
(***************************************************************************)
EXTENDS Integers, Sequences, FiniteSets, TLC

\* ---------------------------------------------------------------- bounds
MaxReq == 2
MaxProj == 1
MaxRows == 2

\* ------------------------------------------------------ program constants
EventBatchSize == 100

\* chunk_text(content_text, chunk_size=500, overlap=100) in process_unstructured_file
ChunkSize == 500
ChunkOverlap == 100

Requests == 1..MaxReq
Projects == 1..MaxProj
Kinds == {"structured", "unstructured"}
Exts == {"csv", "CSV", "txt", "exe"}

\* projects.status DEFAULT of the CREATE TABLE statement
DefaultStatus == "created"

VARIABLES
    status,            \* projects.status per project id, "none" = no such row
    statusLog,         \* every value projects.status has taken, in order
    event_logs,        \* rows of event_logs, the SERIAL id is the position
    event_embeddings,  \* rows of event_embeddings
    documents,         \* rows of documents (no code path inserts one)
    document_chunks,   \* rows of document_chunks (no code path inserts one)
    files,             \* uploads/<kind>/<project_id>_<filename>
    req,               \* the upload requests and the position of each handler
    router,            \* one call of POST /upload (ingestion router)
    table,             \* one call of process_structured_data on a table
    chunker,           \* one call of chunk_document or of chunk_text
    batcher,           \* one run of an embedding loop of file_processors_complete
    service            \* one EmbeddingService and the calls made on it

vars == <<status, statusLog, event_logs, event_embeddings, documents,
          document_chunks, files, req, router, table, chunker, batcher, service>>

\* the calls that are checked on their own, apart from the upload handlers
calls == <<router, table, chunker, batcher, service>>

store == <<event_logs, event_embeddings, documents, document_chunks>>

\* ------------------------------------------------------------ pure helpers
Min(a, b) == IF a < b THEN a ELSE b

\* str.lower() on the extensions of Exts
Lower(ext) == IF ext = "CSV" THEN "csv" ELSE ext

allowed_extensions(kind) ==
    IF kind = "structured" THEN {"csv", "xlsx", "xls"} ELSE {"txt", "docx", "pdf"}

validate_file_type_AcceptAll(ext, allowed) == TRUE

\* extension = Path(filename).suffix.lower().lstrip('.'); extension in allowed
validate_file_type(ext, allowed) == Lower(ext) \in allowed

\* file_path.endswith('.csv') / endswith(('.xlsx', '.xls')): case-sensitive
StructuredLoaderAccepts(ext) == ext \in {"csv", "xlsx", "xls"}

\* Path(file_path).suffix.lower() in ('.txt', '.docx', '.pdf')
UnstructuredLoaderAccepts(ext) == Lower(ext) \in {"txt", "docx", "pdf"}

\* the bytes of an upload: a structured file is a header line followed by n
\* rows, a document is n words; every token carries the request it is from
Payload(r, kind, hdr, n) ==
    IF kind = "structured"
    THEN <<[r |-> r, k |-> 0, ok |-> hdr]>> \o [k \in 1..n |-> [r |-> r, k |-> k, ok |-> TRUE]]
    ELSE [k \in 1..n |-> [r |-> r, k |-> k, ok |-> TRUE]]

\* f.write(content) on a descriptor opened with "wb": the bytes go to offset 0
\* of whatever the file holds by now
WriteAtZero(new, old) ==
    IF Len(old) > Len(new) THEN new \o SubSeq(old, Len(new) + 1, Len(old)) ELSE new

NoFile == [exists |-> FALSE, bytes |-> <<>>, by |-> 0]

Path(kind, p, ext) == <<kind, p, ext>>
Paths == Kinds \X Projects \X Exts

\* create_event_summary: the text embedded for an event row
create_event_summary(event) == [case |-> event.case_id]

\* EmbeddingService.embed_text: a fixed function of the text
embed_text(text) == [of |-> text]

\* EmbeddingService.embed_batch: one vector per input, in input order
embed_batch(texts) == [k \in 1..Len(texts) |-> embed_text(texts[k])]

Max(S) == CHOOSE m \in S : \A x \in S : x <= m

RECURSIVE TopDesc(_, _)
TopDesc(S, n) ==
    IF n = 0 \/ S = {} THEN <<>>
    ELSE <<Max(S)>> \o TopDesc(S \ {Max(S)}, n - 1)

\* not content_text or len(content_text.strip()) == 0
NoTextContent(words) == Len(words) = 0

RECURSIVE ChunkLoop(_, _, _, _, _)
ChunkLoop(words, chunk_size, overlap, start, chunks) ==
    IF start >= Len(words) THEN chunks
    ELSE LET end == start + chunk_size
             chunk == SubSeq(words, start + 1, Min(end, Len(words)))
             added == Append(chunks, chunk)
             nstart == end - overlap
         IN IF nstart + chunk_size >= Len(words)
            THEN IF end < Len(words)
                    /\ Len(words) - end > overlap \div 2
                 THEN Append(added, SubSeq(words, end + 1, Len(words)))
                 ELSE added
            ELSE ChunkLoop(words, chunk_size, overlap, nstart, added)

\* chunk_text on the whitespace-normalised words of the text
chunk_text(words, chunk_size, overlap) ==
    IF Len(words) = 0 THEN <<>>
    ELSE IF Len(words) <= chunk_size THEN <<words>>
    ELSE ChunkLoop(words, chunk_size, overlap, 0, <<>>)

\* ------------------------------------------------------------------ state
\* A request: the arguments of the call (kind = the endpoint, project, ext,
\* hdr and n = the uploaded bytes), the handler's position and locals, and a
\* record of what it did: the statuses it wrote, whether an exception reached
\* its except clause (raised), whether one of its file, store or model calls
\* raised (fault), whether another upload to the same project was in flight
\* at the same time (overlapped), and the response (0 = none)
IdleReq ==
    [pc |-> "idle", kind |-> "none", project |-> 0, ext |-> "none",
     hdr |-> TRUE, n |-> 0,
     events |-> <<>>, event_ids |-> <<>>, i |-> 0, j |-> 0,
     wrote |-> <<>>, raised |-> FALSE, fault |-> FALSE, overlapped |-> FALSE,
     resp |-> 0]

\* no call of the router, of process_structured_data, of a chunker, of an
\* embedding loop or of the embedding service
NoCall == [pc |-> "none"]

\* no project, no row, no file, no request
IngestInit ==
    /\ status = [p \in Projects |-> "none"]
    /\ statusLog = [p \in Projects |-> <<>>]
    /\ event_logs = <<>>
    /\ event_embeddings = {}
    /\ documents = <<>>
    /\ document_chunks = {}
    /\ files = [f \in Paths |-> NoFile]
    /\ req = [r \in Requests |-> IdleReq]

Init ==
    /\ IngestInit
    /\ router = NoCall
    /\ table = NoCall
    /\ chunker = NoCall
    /\ batcher = NoCall
    /\ service = NoCall

\* the locals of a handler are dropped when it leaves the function
Drop(rec) ==
    [rec EXCEPT !.events = <<>>, !.event_ids = <<>>, !.i = 0, !.j = 0]

\* an exception inside the try block: control goes to the except clause;
\* injected says that it came from a file, store or model call
Raise(r, injected) ==
    req' = [req EXCEPT ![r] = Drop([@ EXCEPT !.pc = "except", !.raised = TRUE,
                                             !.fault = @ \/ injected])]

\* the handler is inside its try block
InFlight(r) == req[r].pc \notin {"idle", "get_project", "done"}

Goto(r, pc) == req' = [req EXCEPT ![r].pc = pc]

\* Database.update_project_status: UPDATE projects SET status = %s WHERE id = %s
update_project_status(p, s) ==
    /\ status' = [status EXCEPT ![p] = s]
    /\ statusLog' = [statusLog EXCEPT ![p] = Append(@, s)]

\* --------------------------------------------------------------- projects
\* Database.create_project: INSERT INTO projects (...) without a status
CreateProject(p) ==
    /\ status[p] = "none"
    /\ \A q \in Projects : q < p => status[q] # "none"
    /\ status' = [status EXCEPT ![p] = DefaultStatus]
    /\ statusLog' = [statusLog EXCEPT ![p] = <<DefaultStatus>>]
    /\ UNCHANGED <<store, files, req, calls>>

\* ------------------------------------------------- the upload handlers
\* upload_structured_data / upload_unstructured_data up to the extension
\* check: a filename whose extension is not allowed is answered 400
Receive(r, kind, p, ext, hdr, n) ==
    /\ req[r].pc = "idle"
    /\ \A q \in Requests : q < r => req[q].pc # "idle"
    /\ kind = "unstructured" => hdr
    /\ ~hdr => n = 0
    /\ ~validate_file_type(ext, allowed_extensions(kind)) => n = 0 /\ hdr
    /\ req' = [req EXCEPT ![r] =
                 [@ EXCEPT !.kind = kind, !.project = p, !.ext = ext,
                           !.hdr = hdr, !.n = n,
                           !.pc = IF validate_file_type(ext, allowed_extensions(kind))
                                  THEN "get_project" ELSE "done",
                           !.resp = IF validate_file_type(ext, allowed_extensions(kind))
                                    THEN 0 ELSE 400]]
    /\ UNCHANGED <<status, statusLog, store, files, calls>>

\* project = db.get_project(project_id); 404 when there is none.  The read is
\* outside the try block: when it raises, the request is answered 500 by the
\* general exception handler
GetProject(r, ok) ==
    /\ req[r].pc = "get_project"
    /\ req' = IF ~ok THEN [req EXCEPT ![r] = [@ EXCEPT !.pc = "done", !.resp = 500,
                                                      !.fault = TRUE]]
              ELSE IF status[req[r].project] = "none"
              THEN [req EXCEPT ![r] = [@ EXCEPT !.pc = "done", !.resp = 404]]
              ELSE LET others == {q \in Requests \ {r} :
                                    InFlight(q) /\ req[q].project = req[r].project}
                   IN [q \in Requests |->
                         IF q = r THEN [req[q] EXCEPT !.pc = "open",
                                                      !.overlapped = others # {}]
                         ELSE IF q \in others THEN [req[q] EXCEPT !.overlapped = TRUE]
                         ELSE req[q]]
    /\ UNCHANGED <<status, statusLog, store, files, calls>>

\* with open(file_path, "wb") as f: the file is created or truncated
OpenFile(r, ok) ==
    /\ req[r].pc = "open"
    /\ IF ok
       THEN /\ files' = [files EXCEPT ![Path(req[r].kind, req[r].project, req[r].ext)] =
                           [exists |-> TRUE, bytes |-> <<>>, by |-> r]]
            /\ Goto(r, "save")
       ELSE /\ Raise(r, TRUE)
            /\ UNCHANGED files
    /\ UNCHANGED <<status, statusLog, store, calls>>

\* content = await file.read(); f.write(content); os.path.getsize(file_path)
SaveFile(r, ok) ==
    /\ req[r].pc = "save"
    /\ IF ok
       THEN /\ files' = [files EXCEPT ![Path(req[r].kind, req[r].project, req[r].ext)] =
                           [exists |-> TRUE,
                            bytes |-> WriteAtZero(Payload(r, req[r].kind, req[r].hdr, req[r].n),
                                                  @.bytes),
                            by |-> r]]
            /\ Goto(r, "set_processing")
       ELSE /\ Raise(r, TRUE)
            /\ UNCHANGED files
    /\ UNCHANGED <<status, statusLog, store, calls>>

\* db.update_project_status(project_id, "processing")
SetProcessing(r, ok) ==
    /\ req[r].pc = "set_processing"
    /\ IF ok
       THEN /\ update_project_status(req[r].project, "processing")
            /\ req' = [req EXCEPT ![r] =
                         [@ EXCEPT !.wrote = Append(@, "processing"),
                                   !.pc = IF req[r].kind = "structured"
                                          THEN "load" ELSE "extract"]]
       ELSE /\ Raise(r, TRUE)
            /\ UNCHANGED <<status, statusLog>>
    /\ UNCHANGED <<store, files, calls>>

\* ---------------------------------------------- process_structured_file
\* the rows of event_logs of a project, newest first, at most n of them:
\* SELECT id, case_id, ... WHERE project_id = %s ORDER BY id DESC LIMIT %s
SelectLastEvents(p, n) ==
    LET ids == TopDesc({k \in 1..Len(event_logs) : event_logs[k].project_id = p}, n)
    IN [k \in 1..Len(ids) |-> [id |-> ids[k], case_id |-> event_logs[ids[k]].case_id]]

\* for i in range(0, len(event_ids), batch_size): where the loop goes next
AfterEventBatch(i, event_ids) ==
    IF i < Len(event_ids) THEN "embed_events" ELSE "file_info"

\* pd.read_csv / pd.read_excel by extension, the required-column check and
\* pd.to_datetime; each of them raises on a file it cannot take
LoadStructured(r, ok) ==
    /\ req[r].pc = "load"
    /\ LET bytes == files[Path(req[r].kind, req[r].project, req[r].ext)].bytes
       IN IF /\ ok
             /\ StructuredLoaderAccepts(req[r].ext)
             /\ Len(bytes) > 0
             /\ bytes[1].ok
          THEN req' = [req EXCEPT ![r] = [@ EXCEPT !.events = Tail(bytes),
                                                   !.pc = "insert_events"]]
          ELSE Raise(r, ~ok)
    /\ UNCHANGED <<status, statusLog, store, files, calls>>

\* db.insert_events(project_id, events): one bulk insert
InsertEvents(r, ok) ==
    /\ req[r].pc = "insert_events"
    /\ IF ok
       THEN /\ event_logs' = event_logs \o
                   [k \in 1..Len(req[r].events) |->
                       [project_id |-> req[r].project, case_id |-> req[r].events[k],
                        by |-> r]]
            /\ Goto(r, "select_ids")
       ELSE /\ Raise(r, TRUE)
            /\ UNCHANGED event_logs
    /\ UNCHANGED <<status, statusLog, event_embeddings, documents, document_chunks, files, calls>>

\* event_ids = db.execute(SELECT ... ORDER BY id DESC LIMIT len(events))
SelectEventIds(r, ok) ==
    /\ req[r].pc = "select_ids"
    /\ IF ok
       THEN LET ids == SelectLastEvents(req[r].project, Len(req[r].events))
            IN req' = [req EXCEPT ![r] = [@ EXCEPT !.event_ids = ids, !.i = 0, !.j = 0,
                                                   !.pc = AfterEventBatch(0, ids)]]
       ELSE Raise(r, TRUE)
    /\ UNCHANGED <<status, statusLog, store, files, calls>>

\* embeddings = embedding_service.embed_batch(event_texts) for one batch
EmbedEventBatch(r, ok) ==
    /\ req[r].pc = "embed_events"
    /\ IF ok
       THEN req' = [req EXCEPT ![r] = [@ EXCEPT !.j = 0, !.pc = "insert_event_embedding"]]
       ELSE Raise(r, TRUE)
    /\ UNCHANGED <<status, statusLog, store, files, calls>>

\* db.insert_event_embedding(...) for the next (event_record, embedding) pair
\* of zip(batch, embeddings)
InsertEventEmbedding(r, ok) ==
    /\ req[r].pc = "insert_event_embedding"
    /\ IF ok
       THEN LET i == req[r].i
                batch == SubSeq(req[r].event_ids, i + 1,
                                Min(i + EventBatchSize, Len(req[r].event_ids)))
                embeddings == embed_batch([k \in 1..Len(batch) |-> create_event_summary(batch[k])])
                j == req[r].j + 1
            IN /\ event_embeddings' = event_embeddings \cup
                      {[project_id |-> req[r].project,
                        event_id |-> batch[j].id,
                        event_text |-> create_event_summary(batch[j]),
                        embedding |-> embeddings[j],
                        by |-> r]}
               /\ req' = [req EXCEPT ![r] =
                            IF j < Len(batch)
                            THEN [@ EXCEPT !.j = j]
                            ELSE [@ EXCEPT !.j = 0, !.i = i + EventBatchSize,
                                           !.pc = AfterEventBatch(i + EventBatchSize,
                                                                  req[r].event_ids)]]
       ELSE /\ Raise(r, TRUE)
            /\ UNCHANGED event_embeddings
    /\ UNCHANGED <<status, statusLog, event_logs, documents, document_chunks, files, calls>>

\* db.execute(UPDATE projects SET file_path = %s, file_size = %s ...)
UpdateFileInfo(r, ok) ==
    /\ req[r].pc = "file_info"
    /\ IF ok THEN req' = [req EXCEPT ![r] = Drop([@ EXCEPT !.pc = "set_completed"])]
             ELSE Raise(r, ~ok)
    /\ UNCHANGED <<status, statusLog, store, files, calls>>

\* -------------------------------------------- process_unstructured_file
\* extract_text_from_* by extension, then the empty-content check
ExtractText(r, ok) ==
    /\ req[r].pc = "extract"
    /\ LET words == files[Path(req[r].kind, req[r].project, req[r].ext)].bytes
       IN IF /\ ok
             /\ UnstructuredLoaderAccepts(req[r].ext)
             /\ ~NoTextContent(words)
          THEN req' = [req EXCEPT ![r] = [@ EXCEPT !.events = words,
                                                   !.pc = "insert_document"]]
          ELSE Raise(r, ~ok)
    /\ UNCHANGED <<status, statusLog, store, files, calls>>

\* filename = Path(file_path).name; file_size = Path(file_path).stat().st_size;
\* document_id = db.insert_document(project_id=..., filename=..., file_type=...,
\* file_path=..., file_size=..., content_text=...).  Database.insert_document
\* takes (project_id, doc_name, doc_type): the call raises TypeError
\* (unexpected keyword argument 'filename') before any statement is sent, so
\* no Document row is stored.  The rest of the function (chunk_text, the
\* embedding batches, insert_document_chunk, update_document_chunk_count) is
\* never reached.  ok = FALSE: stat() raises
InsertDocument(r, ok) ==
    /\ req[r].pc = "insert_document"
    /\ Raise(r, ~ok)
    /\ UNCHANGED <<status, statusLog, store, files, calls>>

\* ------------------------------------------------ the end of a handler
AfterCompleted_StillWorking == "file_info"

\* what follows the completed write: return UploadResponse(...)
AfterCompleted == "done"

\* db.update_project_status(project_id, "completed"); return UploadResponse(...)
SetCompleted(r, ok) ==
    /\ req[r].pc = "set_completed"
    /\ IF ok
       THEN /\ update_project_status(req[r].project, "completed")
            /\ req' = [req EXCEPT ![r] =
                         [@ EXCEPT !.wrote = Append(@, "completed"),
                                   !.pc = AfterCompleted, !.resp = 200]]
       ELSE /\ Raise(r, TRUE)
            /\ UNCHANGED <<status, statusLog>>
    /\ UNCHANGED <<store, files, calls>>

\* except Exception as e: db.update_project_status(project_id, "failed");
\* raise HTTPException(500).  When the status write raises too, the exception
\* leaves the handler and the general exception handler answers 500
ExceptClause(r, ok) ==
    /\ req[r].pc = "except"
    /\ IF ok
       THEN /\ update_project_status(req[r].project, "failed")
            /\ req' = [req EXCEPT ![r] =
                         [@ EXCEPT !.wrote = Append(@, "failed"),
                                   !.pc = "done", !.resp = 500]]
       ELSE /\ req' = [req EXCEPT ![r] = [@ EXCEPT !.pc = "done", !.resp = 500,
                                                    !.fault = TRUE]]
            /\ UNCHANGED <<status, statusLog>>
    /\ UNCHANGED <<store, files, calls>>

\* The handler stops inside the try block without reaching "except Exception":
\* the worker is killed, or a BaseException (asyncio.CancelledError,
\* SystemExit) passes through.  Nothing is written and nothing is answered
Abort(r) ==
    /\ InFlight(r)
    /\ req' = [req EXCEPT ![r] = Drop([@ EXCEPT !.pc = "done", !.resp = 0])]
    /\ UNCHANGED <<status, statusLog, store, files, calls>>

\* ---------------------------------------------------------- specification
Next ==
    \/ \E p \in Projects : CreateProject(p)
    \/ \E r \in Requests, kind \in Kinds, p \in Projects, ext \in Exts,
          hdr \in BOOLEAN, n \in 0..MaxRows : Receive(r, kind, p, ext, hdr, n)
    \/ \E r \in Requests, ok \in BOOLEAN : GetProject(r, ok)
    \/ \E r \in Requests, ok \in BOOLEAN : OpenFile(r, ok)
    \/ \E r \in Requests, ok \in BOOLEAN : SaveFile(r, ok)
    \/ \E r \in Requests, ok \in BOOLEAN : SetProcessing(r, ok)
    \/ \E r \in Requests, ok \in BOOLEAN : LoadStructured(r, ok)
    \/ \E r \in Requests, ok \in BOOLEAN : InsertEvents(r, ok)
    \/ \E r \in Requests, ok \in BOOLEAN : SelectEventIds(r, ok)
    \/ \E r \in Requests, ok \in BOOLEAN : EmbedEventBatch(r, ok)
    \/ \E r \in Requests, ok \in BOOLEAN : InsertEventEmbedding(r, ok)
    \/ \E r \in Requests, ok \in BOOLEAN : UpdateFileInfo(r, ok)
    \/ \E r \in Requests, ok \in BOOLEAN : ExtractText(r, ok)
    \/ \E r \in Requests, ok \in BOOLEAN : InsertDocument(r, ok)
    \/ \E r \in Requests, ok \in BOOLEAN : SetCompleted(r, ok)
    \/ \E r \in Requests, ok \in BOOLEAN : ExceptClause(r, ok)
    \/ \E r \in Requests : Abort(r)

Spec == Init /\ [][Next]_vars

\* ------------------------------------------- POST /upload (the router)
\* a filename is the sequence of its dot-separated parts: "unsupported.jpg"
\* is <<"unsupported", "jpg">>, a name without a dot has one part
MaxParts == 2

NameParts == {"data", "csv", "CSV", "xlsx", "xls", "txt", "docx", "pdf", "jpg"}

RECURSIVE SeqsUpTo(_, _)
SeqsUpTo(S, n) ==
    IF n = 0 THEN {<<>>}
    ELSE LET shorter == SeqsUpTo(S, n - 1)
         IN shorter \cup {Append(q, x) : q \in {t \in shorter : Len(t) = n - 1}, x \in S}

FileNames == SeqsUpTo(NameParts, MaxParts) \ {<<>>}

\* filename.split('.')[-1].lower()
SplitLastLower(filename) == Lower(filename[Len(filename)])

\* os.path.splitext(filename)[1].lower() without its dot: empty when the
\* name has no dot
SplitExtLower(filename) ==
    IF Len(filename) >= 2 THEN Lower(filename[Len(filename)]) ELSE ""

\* the exception classes the handler's except clauses tell apart:
\* fastapi.HTTPException derives from Exception and not from ValueError
IsValueError(exc) == exc = "ValueError"

IsException(exc) == exc \in {"ValueError", "HTTPException", "Exception"}

RouterIdle ==
    [pc |-> "idle", filename |-> <<>>, too_large |-> FALSE, read |-> "none",
     ext |-> "", called |-> {}, exc |-> "none", exc_status |-> 0, resp |-> 0, detail |-> "none"]

RouterInit ==
    /\ IngestInit
    /\ router = RouterIdle
    /\ table = NoCall
    /\ chunker = NoCall
    /\ batcher = NoCall
    /\ service = NoCall

\* the request arrives: file.filename and file.size
RouterReceive(filename, too_large) ==
    /\ router.pc = "idle"
    /\ router' = [router EXCEPT !.pc = "size", !.filename = filename,
                                !.too_large = too_large]
    /\ UNCHANGED <<status, statusLog, store, files, req, table, chunker, batcher, service>>

\* if file.size > 50 * 1024 * 1024: raise HTTPException(413), outside the
\* try; service = DataProcessingService(db_conn); the coroutine then waits
\* at await file.read()
RouterCheckSize ==
    /\ router.pc = "size"
    /\ router' = IF router.too_large
                 THEN [router EXCEPT !.pc = "done", !.resp = 413,
                                     !.detail = "File size exceeds the 50MB limit."]
                 ELSE [router EXCEPT !.pc = "read"]
    /\ UNCHANGED <<status, statusLog, store, files, req, table, chunker, batcher, service>>

\* file_bytes = await file.read(); file_io = BytesIO(file_bytes); filename =
\* file.filename; ext = filename.split('.')[-1].lower().  The await is
\* outside the try block: when the read raises, the exception leaves the
\* handler and the server answers 500; when the request is cancelled at the
\* await, nothing is answered.  Neither service method is called then
RouterRead(outcome) ==
    /\ router.pc = "read"
    /\ router' =
         IF outcome = "bytes"
         THEN [router EXCEPT !.pc = "dispatch", !.read = outcome,
                             !.ext = SplitLastLower(router.filename)]
         ELSE IF outcome = "raised"
         THEN [router EXCEPT !.pc = "done", !.read = outcome, !.resp = 500,
                             !.detail = "Internal Server Error"]
         ELSE [router EXCEPT !.pc = "done", !.read = outcome, !.resp = 0]
    /\ UNCHANGED <<status, statusLog, store, files, req, table, chunker, batcher, service>>

\* try: the branch on ext.  The else branch raises HTTPException(400) inside
\* the try block
RouterDispatch ==
    /\ router.pc = "dispatch"
    /\ router' =
         IF router.ext \in {"csv", "xlsx", "xls"}
         THEN [router EXCEPT !.pc = "service",
                             !.called = @ \cup {"process_structured_log"}]
         ELSE IF router.ext \in {"txt", "docx"}
         THEN [router EXCEPT !.pc = "service",
                             !.called = @ \cup {"process_unstructured_doc"}]
         ELSE [router EXCEPT !.pc = "except", !.exc = "HTTPException",
                             !.exc_status = 400,
                             !.detail = "Unsupported file type"]
    /\ UNCHANGED <<status, statusLog, store, files, req, table, chunker, batcher, service>>

\* service.process_structured_log / process_unstructured_doc returns, raises
\* ValueError (always when the loader does not know the extension) or raises
\* something else (a file it cannot parse)
RouterService(outcome) ==
    /\ router.pc = "service"
    /\ LET known == IF "process_structured_log" \in router.called
                    THEN {"csv", "xlsx", "xls"} ELSE {"txt", "docx"}
       IN SplitExtLower(router.filename) \notin known => outcome = "ValueError"
    /\ router' = IF outcome = "return"
                 THEN [router EXCEPT !.pc = "done", !.resp = 201, !.detail = "result"]
                 ELSE [router EXCEPT !.pc = "except", !.exc = outcome]
    /\ UNCHANGED <<status, statusLog, store, files, req, table, chunker, batcher, service>>

\* except ValueError: 422; except Exception: 500.  The first clause whose
\* class the exception is an instance of handles it
RouterExcept ==
    /\ router.pc = "except"
    /\ router' = IF IsValueError(router.exc)
                 THEN [router EXCEPT !.pc = "done", !.resp = 422,
                                     !.detail = "Data validation failed"]
                 ELSE IF IsException(router.exc)
                 THEN [router EXCEPT !.pc = "done", !.resp = 500,
                                     !.detail = "An error occurred during file processing."]
                 ELSE [router EXCEPT !.pc = "done", !.resp = router.exc_status]
    /\ UNCHANGED <<status, statusLog, store, files, req, table, chunker, batcher, service>>

RouterNext ==
    \/ \E filename \in FileNames, too_large \in BOOLEAN : RouterReceive(filename, too_large)
    \/ RouterCheckSize
    \/ \E outcome \in {"bytes", "raised", "cancelled"} : RouterRead(outcome)
    \/ RouterDispatch
    \/ \E outcome \in {"return", "ValueError", "Exception"} : RouterService(outcome)
    \/ RouterExcept

RouterSpec == RouterInit /\ [][RouterNext]_vars

\* ------------------------------------------------ the chunkers, on their own
\* A text is the sequence of its characters.  The texts given to the chunkers
\* are a run of "a", then nothing, white space or a sentence terminator, then
\* a run of "b", at most MaxText characters in all
MaxText == 18

\* iterations of a chunker's while loop that are followed
MaxIter == 20
MaxTableRows == 2

WhiteSpace == {" ", "\n"}

\* for sep in ['. ', '.\n', '! ', '?\n']
Separators == << <<".", " ">>, <<".", "\n">>, <<"!", " ">>, <<"?", "\n">> >>

Rep(c, n) == [k \in 1..n |-> c]

Middles == {<<>>, <<" ">>, <<" ", " ">>} \cup {Separators[k] : k \in 1..Len(Separators)}

SentenceTexts ==
    {Rep("a", i) \o mid \o Rep("b", j) :
        <<i, mid, j>> \in {t \in (0..MaxText) \X Middles \X (0..MaxText) :
                              t[1] + Len(t[2]) + t[3] <= MaxText}}

\* texts of n one-letter words, each word a different letter
WordTexts ==
    LET Letters == <<"a", "b", "c", "d", "e", "f", "g", "h", "i", "j", "k", "l">>
        WordText(n) == [k \in 1..(2 * n - 1) |->
                           IF k % 2 = 1 THEN Letters[(k + 1) \div 2] ELSE " "]
    IN {WordText(n) : n \in 1..Min((MaxText + 1) \div 2, Len(Letters))}

\* texts with two different sentence terminators next to each other, far
\* enough into the text to lie in the tail of a window
TwoTerminatorTexts ==
    {Rep("a", t[1]) \o Separators[t[2]] \o Separators[t[3]] \o Rep("b", t[4]) :
        t \in {u \in (10..MaxText) \X (1..Len(Separators)) \X (1..Len(Separators))
                         \X (0..MaxText) :
                  u[2] # u[3] /\ u[1] + 4 + u[4] <= MaxText}}

\* texts with a sentence terminator at offset 62 or 63, the two sides of
\* 70% of a window of 90 characters
BoundaryTexts ==
    {Rep("a", i) \o Separators[k] \o Rep("b", 30) :
        i \in {62, 63}, k \in 1..Len(Separators)}

Texts == SentenceTexts \cup TwoTerminatorTexts \cup WordTexts \cup BoundaryTexts

\* the chunk sizes and overlaps the chunkers are called with
ChunkSizes == {1, 2, 3, 11, 17, 90}

Overlaps == {0, 1, 2, 10, 15, 17}

\* seq[start:end] of Python: a negative index counts from the end, an index
\* past an end is clamped
PyIndex(len, i) == IF i < 0 THEN (IF len + i < 0 THEN 0 ELSE len + i)
                   ELSE (IF i > len THEN len ELSE i)

PySlice(seq, start, end) ==
    LET lo == PyIndex(Len(seq), start)
        hi == PyIndex(Len(seq), end)
    IN IF lo >= hi THEN <<>> ELSE SubSeq(seq, lo + 1, hi)

\* str.rfind(sep): the highest index at which sep occurs, -1 when none
RFind(text, sep) ==
    LET hits == {i \in 0..(Len(text) - Len(sep)) : SubSeq(text, i + 1, i + Len(sep)) = sep}
    IN IF hits = {} THEN -1 ELSE Max(hits)

RECURSIVE LStrip(_)
LStrip(text) ==
    IF Len(text) = 0 \/ Head(text) \notin WhiteSpace THEN text ELSE LStrip(Tail(text))

RECURSIVE RStrip(_)
RStrip(text) ==
    IF Len(text) = 0 \/ text[Len(text)] \notin WhiteSpace THEN text
    ELSE RStrip(SubSeq(text, 1, Len(text) - 1))

\* str.strip()
Strip(text) == RStrip(LStrip(text))

\* str.split(): the maximal runs of characters that are not white space
RECURSIVE Split(_, _, _)
Split(text, word, words) ==
    IF Len(text) = 0 THEN (IF Len(word) = 0 THEN words ELSE Append(words, word))
    ELSE IF Head(text) \in WhiteSpace
    THEN Split(Tail(text), <<>>, IF Len(word) = 0 THEN words ELSE Append(words, word))
    ELSE Split(Tail(text), Append(word, Head(text)), words)

\* ' '.join(words)
RECURSIVE Join(_)
Join(words) ==
    IF Len(words) = 0 THEN <<>>
    ELSE IF Len(words) = 1 THEN words[1]
    ELSE words[1] \o <<" ">> \o Join(Tail(words))

\* last_sep > chunk_size * 0.7, computed in double precision as Python does.
\* The double 0.7 is 0.4 * 2^-53 below 7/10, so the product is below 7/10 of
\* chunk_size by chunk_size * 0.4 * 2^-53 before it is rounded.  When
\* 7 * chunk_size / 10 is no integer the comparison with the integer
\* last_sep comes out as in exact arithmetic.  When it is an integer m, the
\* product is rounded to m unless the deficit exceeds half the spacing of
\* the doubles below m, which is so when m > 1.75 * 2^e, 2^e being the
\* power of two at or below m (chunk_size 90, 170, 180, 330..360, ...): the
\* product is then the double below m and last_sep = m is already beyond it
BeyondSeventyPercent(last_sep, chunk_size) ==
    LET m == (7 * chunk_size) \div 10
        below == {2^e : e \in {x \in 0..24 : 2^x <= m}}
    IN IF (7 * chunk_size) % 10 = 0 /\ m > 0 /\ 4 * m > 7 * Max(below)
       THEN last_sep >= m
       ELSE 10 * last_sep > 7 * chunk_size

SentenceEnd_PastWindow(content, start, end, chunk_size) == end + 1

\* chunk_document, "Try to break at sentence boundary": where the window
\* content[start:end] is cut.  The separators are tried in the order of the
\* list and the first one whose last occurrence lies beyond 70% of chunk_size
\* decides
SentenceEnd(content, start, end, chunk_size) ==
    LET window == PySlice(content, start, end)
        found == {k \in 1..Len(Separators) :
                     BeyondSeventyPercent(RFind(window, Separators[k]), chunk_size)}
    IN IF found = {} THEN end
       ELSE LET k == CHOOSE x \in found : \A y \in found : x <= y
            IN start + RFind(window, Separators[k]) + Len(Separators[k])

\* one call of a chunker: its arguments, the position in its body, the
\* locals start and chunks, the windows [start, end) it has cut so far and the
\* number of loop iterations made
ChunkerIdle ==
    [pc |-> "idle", fn |-> "none", content |-> <<>>, words |-> <<>>,
     chunk_size |-> 0, overlap |-> 0,
     start |-> 0, chunks |-> <<>>, windows |-> <<>>, iter |-> 0]

\* chunk_document(content, chunk_size, overlap) or chunk_text(text,
\* chunk_size, overlap) has just been called
ChunkCall(fn, content, chunk_size, overlap) ==
    [ChunkerIdle EXCEPT !.pc = "called", !.fn = fn, !.content = content,
                        !.chunk_size = chunk_size, !.overlap = overlap]

ChunkerInit ==
    /\ IngestInit
    /\ router = NoCall
    /\ table = NoCall
    /\ batcher = NoCall
    /\ service = NoCall
    /\ chunker \in {ChunkCall(fn, content, chunk_size, overlap) :
                      fn \in {"chunk_document", "chunk_text"},
                      content \in Texts \ BoundaryTexts,
                      chunk_size \in ChunkSizes, overlap \in Overlaps}
                   \cup
                   {ChunkCall(fn, content, chunk_size, overlap) :
                      fn \in {"chunk_document"}, content \in BoundaryTexts,
                      chunk_size \in ChunkSizes, overlap \in Overlaps}

\* chunk_document: if len(content) <= chunk_size: return [content];
\* chunks = []; start = 0
ChunkDocumentEnter ==
    /\ chunker.pc = "called" /\ chunker.fn = "chunk_document"
    /\ chunker' = IF Len(chunker.content) <= chunker.chunk_size
                  THEN [chunker EXCEPT !.pc = "returned",
                                       !.chunks = <<chunker.content>>,
                                       !.windows = << <<0, Len(chunker.content)>> >>]
                  ELSE [chunker EXCEPT !.pc = "loop", !.start = 0, !.chunks = <<>>]
    /\ UNCHANGED <<status, statusLog, store, files, req, router, table, batcher, service>>

\* chunk_document: the test of "while start < len(content)" and one pass
\* through the body of the loop
ChunkDocumentStep ==
    /\ chunker.pc = "loop" /\ chunker.fn = "chunk_document"
    /\ chunker.iter < MaxIter
    /\ LET content == chunker.content
           start == chunker.start
           end == IF start + chunker.chunk_size < Len(content)
                  THEN SentenceEnd(content, start, start + chunker.chunk_size,
                                   chunker.chunk_size)
                  ELSE start + chunker.chunk_size
       IN chunker' =
            IF start < Len(content)
            THEN [chunker EXCEPT
                    !.chunks = Append(@, Strip(PySlice(content, start, end))),
                    !.windows = Append(@, <<start, end>>),
                    !.start = IF end < Len(content) THEN end - chunker.overlap ELSE end,
                    !.iter = @ + 1]
            ELSE [chunker EXCEPT !.pc = "returned"]
    /\ UNCHANGED <<status, statusLog, store, files, req, router, table, batcher, service>>

\* chunk_text: text = re.sub(r'\s+', ' ', text).strip(); if not text: return
\* []; words = text.split(); if len(words) <= chunk_size: return [text];
\* chunks = []; start = 0
ChunkTextEnter ==
    /\ chunker.pc = "called" /\ chunker.fn = "chunk_text"
    /\ LET words == Split(chunker.content, <<>>, <<>>)
       IN chunker' = IF Len(words) = 0
                     THEN [chunker EXCEPT !.pc = "returned", !.chunks = <<>>]
                     ELSE IF Len(words) <= chunker.chunk_size
                     THEN [chunker EXCEPT !.pc = "returned", !.words = words,
                                          !.chunks = <<Join(words)>>,
                                          !.windows = << <<0, Len(words)>> >>]
                     ELSE [chunker EXCEPT !.pc = "loop", !.words = words,
                                          !.start = 0, !.chunks = <<>>]
    /\ UNCHANGED <<status, statusLog, store, files, req, router, table, batcher, service>>

\* chunk_text: the test of "while start < len(words)" and one pass through
\* the body of the loop, the break included
ChunkTextStep ==
    /\ chunker.pc = "loop" /\ chunker.fn = "chunk_text"
    /\ chunker.iter < MaxIter
    /\ LET words == chunker.words
           start == chunker.start
           end == start + chunker.chunk_size
           added == Append(chunker.chunks, Join(PySlice(words, start, end)))
           next == end - chunker.overlap
           final == PySlice(words, end, Len(words))
       IN chunker' =
            IF start >= Len(words)
            THEN [chunker EXCEPT !.pc = "returned"]
            ELSE IF next + chunker.chunk_size >= Len(words)
            THEN [chunker EXCEPT
                    !.pc = "returned",
                    !.start = next,
                    !.windows = Append(@, <<start, end>>),
                    !.iter = @ + 1,
                    !.chunks = IF end < Len(words) /\ Len(final) > chunker.overlap \div 2
                               THEN Append(added, Join(final)) ELSE added]
            ELSE [chunker EXCEPT !.start = next, !.chunks = added,
                                 !.windows = Append(@, <<start, end>>),
                                 !.iter = @ + 1]
    /\ UNCHANGED <<status, statusLog, store, files, req, router, table, batcher, service>>

ChunkerNext ==
    \/ ChunkDocumentEnter
    \/ ChunkDocumentStep
    \/ ChunkTextEnter
    \/ ChunkTextStep

ChunkerSpec == ChunkerInit /\ [][ChunkerNext]_vars

\* ------------------------------ the structured-data pipeline, on its own
\* str.lower() on the letters of a column name
UpperCase == <<"A", "B", "C", "D", "E", "F", "G", "H", "I", "J", "K", "L", "M", "N", "O", "P", "Q", "R", "S", "T", "U", "V", "W", "X", "Y", "Z">>
LowerCase == <<"a", "b", "c", "d", "e", "f", "g", "h", "i", "j", "k", "l", "m", "n", "o", "p", "q", "r", "s", "t", "u", "v", "w", "x", "y", "z">>

LowerChar(c) ==
    IF \E k \in 1..Len(UpperCase) : UpperCase[k] = c
    THEN LowerCase[CHOOSE k \in 1..Len(UpperCase) : UpperCase[k] = c]
    ELSE c

\* col.lower().replace(' ', '_')
Normalize(col) == [k \in 1..Len(col) |-> IF LowerChar(col[k]) = " " THEN "_" ELSE LowerChar(col[k])]

\* REQUIRED_COLUMNS = ['case_id', 'activity', 'timestamp']
REQUIRED_COLUMNS == <<<<"c", "a", "s", "e", "_", "i", "d">>,
                      <<"a", "c", "t", "i", "v", "i", "t", "y">>,
                      <<"t", "i", "m", "e", "s", "t", "a", "m", "p">>>>

\* the cells of a data frame: NaN, a string, a float, None, and what
\* pd.to_datetime makes of a string (a timestamp) and of NaN (NaT)
NaN == [kind |-> "nan"]
None == [kind |-> "none"]
NaT == [kind |-> "nat"]
Str(v) == [kind |-> "str", v |-> v]
Float(n) == [kind |-> "float", n |-> n]
Datetime(v, utc) == [kind |-> "datetime", v |-> v, utc |-> utc]

IsNull(cell) == cell.kind \in {"nan", "none", "nat"}

\* OPTIONAL_COLUMNS = {'resource': 'Unknown', 'cost': 0.0, 'location': '',
\* 'product_type': ''}, in the order of the dict
OPTIONAL_COLUMNS ==
    <<[col |-> <<"r", "e", "s", "o", "u", "r", "c", "e">>, default_value |-> Str(<<"U", "n", "k", "n", "o", "w", "n">>)],
      [col |-> <<"c", "o", "s", "t">>, default_value |-> Float(0)],
      [col |-> <<"l", "o", "c", "a", "t", "i", "o", "n">>, default_value |-> Str(<<>>)],
      [col |-> <<"p", "r", "o", "d", "u", "c", "t", "_", "t", "y", "p", "e">>, default_value |-> Str(<<>>)]>>

\* the tables the pipeline is given, as pd.read_csv or pd.read_excel made
\* them of a file: for each of case_id, activity, timestamp and resource the
\* column is absent (<<>>) or present under one of its spellings (its XES
\* alias among them), at least one column is present, and each row holds
\* one cell per column; an activity cell is empty, a text or a number; a
\* timestamp cell is empty, a date or a text that is no date.  A label that
\* is a str is the tuple of its characters.  The last column is one whose
\* header cell in an Excel sheet holds the number 2024: pd.read_excel makes
\* its label the int 2024, not a str, written here as the marker "int"
\* before the digits (a float or a date in the header cell gives a float
\* or datetime label, which is no str either)
HeaderSlots ==
    <<[spellings |-> {<<"c", "a", "s", "e", "_", "i", "d">>, <<"C", "a", "s", "e", "_", "I", "D">>, <<"C", "a", "s", "e", " ", "I", "D">>,
                      <<"c", "a", "s", "e", ":", "c", "o", "n", "c", "e", "p", "t", ":", "n", "a", "m", "e">>},
       cells |-> {NaN, Str(<<" ", "x">>)}],
      [spellings |-> {<<"a", "c", "t", "i", "v", "i", "t", "y">>, <<"A", "c", "t", "i", "v", "i", "t", "y">>,
                      <<"c", "o", "n", "c", "e", "p", "t", ":", "n", "a", "m", "e">>},
       cells |-> {NaN, Str(<<" ", "x">>), Float(1)}],
      [spellings |-> {<<"t", "i", "m", "e", "s", "t", "a", "m", "p">>, <<"T", "i", "m", "e", "S", "t", "a", "m", "p">>,
                      <<"t", "i", "m", "e", ":", "t", "i", "m", "e", "s", "t", "a", "m", "p">>},
       cells |-> {NaN, Str(<<"2", "0", "2", "4", "-", "0", "1", "-", "0", "1">>), Str(<<"x">>)}],
      [spellings |-> {<<"r", "e", "s", "o", "u", "r", "c", "e">>, <<"o", "r", "g", ":", "r", "e", "s", "o", "u", "r", "c", "e">>},
       cells |-> {Str(<<"x">>)}],
      [spellings |-> {<<"int", "2", "0", "2", "4">>},
       cells |-> {Float(1)}]>>

HeaderPicks ==
    {p \in [1..Len(HeaderSlots) ->
               UNION {HeaderSlots[k].spellings \cup {<<>>} : k \in 1..Len(HeaderSlots)}] :
        /\ \A k \in 1..Len(HeaderSlots) : p[k] \in HeaderSlots[k].spellings \cup {<<>>}
        /\ \E k \in 1..Len(HeaderSlots) : p[k] # <<>>}

RECURSIVE PickedSlots(_, _)
PickedSlots(p, k) ==
    IF k > Len(HeaderSlots) THEN <<>>
    ELSE (IF p[k] = <<>> THEN <<>> ELSE <<k>>) \o PickedSlots(p, k + 1)

RECURSIVE CellRows(_)
CellRows(cellsets) ==
    IF Len(cellsets) = 0 THEN {<<>>}
    ELSE {<<c>> \o r : c \in Head(cellsets), r \in CellRows(Tail(cellsets))}

\* tables of up to MaxTableRows rows under the canonical column names,
\* tables of no row or one row under every spelling of the columns, and
\* sheets with the int-labelled column that hold the header row only
Tables ==
    LET CanonicalColumns == REQUIRED_COLUMNS \o <<<<"r", "e", "s", "o", "u", "r", "c", "e">>>>
        Canonical(p) == \A k \in 1..Len(HeaderSlots) :
                            \/ p[k] = <<>>
                            \/ k <= Len(CanonicalColumns) /\ p[k] = CanonicalColumns[k]
        RowsOf(p) ==
            LET slots == PickedSlots(p, 1)
            IN CellRows([k \in 1..Len(slots) |-> HeaderSlots[slots[k]].cells])
        TableOf(p, rows) ==
            LET slots == PickedSlots(p, 1)
            IN [columns |-> [k \in 1..Len(slots) |-> p[slots[k]]], rows |-> rows]
    IN UNION {{TableOf(p, rows) : rows \in SeqsUpTo(RowsOf(p), MaxTableRows)} :
              p \in {q \in HeaderPicks : Canonical(q)}}
       \cup
       UNION {{TableOf(p, rows) : rows \in {<<>>} \cup
                                        (IF p[Len(HeaderSlots)] = <<>>
                                         THEN {<<row>> : row \in RowsOf(p)} ELSE {})} :
              p \in HeaderPicks}

\* col in df.columns
HasColumn(df, col) == \E k \in 1..Len(df.columns) : df.columns[k] = col

\* df[col], the cells of a column the frame has
Column(df, col) ==
    LET c == CHOOSE k \in 1..Len(df.columns) : df.columns[k] = col
    IN [i \in 1..Len(df.rows) |-> df.rows[i][c]]

\* df[col] = cells for a column the frame has
SetColumn(df, col, cells) ==
    [df EXCEPT !.rows = [i \in 1..Len(df.rows) |->
                            [k \in 1..Len(df.columns) |->
                                IF df.columns[k] = col THEN cells[i] ELSE df.rows[i][k]]]]

\* df[col] = default_value for a column the frame does not have
AddColumn(df, col, default_value) ==
    [columns |-> Append(df.columns, col),
     rows |-> [i \in 1..Len(df.rows) |-> Append(df.rows[i], default_value)]]

\* validate_event_log_schema(df).  col.lower() raises AttributeError on a
\* column label that is no str (an int has no attribute lower), and the
\* function then returns nothing; otherwise it returns is_valid and the
\* list of the required columns that are none of the normalised names
validate_event_log_schema(columns) ==
    LET IsStr(col) == Len(col) = 0 \/ col[1] # "int"
        df_columns == [k \in 1..Len(columns) |-> Normalize(columns[k])]
        missing == SelectSeq(REQUIRED_COLUMNS,
                             LAMBDA col : ~\E k \in 1..Len(df_columns) : df_columns[k] = col)
    IN IF \E k \in 1..Len(columns) : ~IsStr(columns[k])
       THEN [raised |-> "AttributeError"]
       ELSE [raised |-> "none", is_valid |-> Len(missing) = 0, missing |-> missing]

\* Series.fillna(value): every null cell (NaN, None, NaT) takes the value
fillna(cell, value) == IF IsNull(cell) THEN value ELSE cell

\* Series.astype(str): str() of every cell, whatever it holds.  A float with
\* an integral value n prints as its digits followed by ".0".  (The frames
\* sanitize_dataframe is given hold no timestamps yet: they are made by
\* transform_to_canonical_format, after it)
astype_str(cell) ==
    LET RECURSIVE Repr(_)
        Repr(n) == IF n < 0 THEN <<"-">> \o Repr(0 - n)
                   ELSE IF n < 10 THEN <<<<"0", "1", "2", "3", "4", "5", "6", "7", "8", "9">>[n + 1]>>
                   ELSE Repr(n \div 10) \o Repr(n % 10)
    IN CASE cell.kind = "str" -> cell
         [] cell.kind = "nan" -> Str(<<"n", "a", "n">>)
         [] cell.kind = "none" -> Str(<<"N", "o", "n", "e">>)
         [] cell.kind = "nat" -> Str(<<"N", "a", "T">>)
         [] cell.kind = "float" -> Str(Repr(cell.n) \o <<".", "0">>)

\* Series.str.strip() on one cell of an object column: a str is stripped, a
\* null cell stays as it is, and any other cell (a number) becomes NaN
str_strip(cell) ==
    IF cell.kind = "str" THEN Str(Strip(cell.v))
    ELSE IF IsNull(cell) THEN cell
    ELSE NaN

FillActivity(cell) == fillna(cell, Str(<<"U", "n", "k", "n", "o", "w", "n", " ", "A", "c", "t", "i", "v", "i", "t", "y">>))
FillCaseId(cell) == astype_str(fillna(cell, Str(<<"U", "n", "k", "n", "o", "w", "n", " ", "C", "a", "s", "e">>)))

\* sanitize_dataframe(df)
sanitize_dataframe(df) ==
    LET dropped == [df EXCEPT !.rows = SelectSeq(df.rows,
                        LAMBDA row : \E k \in 1..Len(row) : ~IsNull(row[k]))]
        activity == IF HasColumn(dropped, REQUIRED_COLUMNS[2])
                    THEN SetColumn(dropped, REQUIRED_COLUMNS[2],
                                   [i \in 1..Len(dropped.rows) |->
                                       FillActivity(Column(dropped, REQUIRED_COLUMNS[2])[i])])
                    ELSE dropped
        case_id == IF HasColumn(dropped, REQUIRED_COLUMNS[1])
                   THEN SetColumn(activity, REQUIRED_COLUMNS[1],
                                  [i \in 1..Len(activity.rows) |->
                                      FillCaseId(Column(activity, REQUIRED_COLUMNS[1])[i])])
                   ELSE activity
        \* df.select_dtypes(include=['object']): a column of numbers and NaN
        \* only is float64 and a column of timestamps and NaT only is
        \* datetime64; any other column is an object column
        OfKinds(k, kinds) == \A i \in 1..Len(case_id.rows) :
                                 case_id.rows[i][k].kind \in kinds
        IsObject(k) == ~OfKinds(k, {"float", "nan"}) /\ ~OfKinds(k, {"datetime", "nat"})
    IN [case_id EXCEPT !.rows = [i \in 1..Len(case_id.rows) |->
                                    [k \in 1..Len(case_id.columns) |->
                                        IF IsObject(k) THEN str_strip(case_id.rows[i][k])
                                        ELSE case_id.rows[i][k]]]]

Digits == {"0", "1", "2", "3", "4", "5", "6", "7", "8", "9"}

\* a text matches a pattern character by character; "d" in the pattern
\* stands for a digit
Matches(v, pattern) ==
    /\ Len(v) = Len(pattern)
    /\ \A k \in 1..Len(v) : IF pattern[k] = "d" THEN v[k] \in Digits ELSE v[k] = pattern[k]

\* for fmt in ['%Y-%m-%dT%H:%M:%S', '%Y-%m-%d %H:%M:%S', '%Y/%m/%d %H:%M:%S']
FallbackFormats ==
    <<<<"d", "d", "d", "d", "-", "d", "d", "-", "d", "d", "T", "d", "d", ":", "d", "d", ":", "d", "d">>,
      <<"d", "d", "d", "d", "-", "d", "d", "-", "d", "d", " ", "d", "d", ":", "d", "d", ":", "d", "d">>,
      <<"d", "d", "d", "d", "/", "d", "d", "/", "d", "d", " ", "d", "d", ":", "d", "d", ":", "d", "d">>>>

\* the texts pd.to_datetime parses without a format: a date, or a date and
\* a time
DateFormat == <<"d", "d", "d", "d", "-", "d", "d", "-", "d", "d">>

Parses(v) ==
    \/ Matches(v, DateFormat)
    \/ \E k \in 1..Len(FallbackFormats) : Matches(v, FallbackFormats[k])

\* pd.to_datetime(cells, utc=True) and pd.to_datetime(cells) raise on a
\* text they cannot parse; pd.to_datetime(cells, format=fmt) raises on a
\* text that does not match fmt
ToDatetimeRaises(cells) ==
    \E i \in 1..Len(cells) : cells[i].kind = "str" /\ ~Parses(cells[i].v)

ToDatetimeFormatRaises(cells, fmt) ==
    \E i \in 1..Len(cells) : cells[i].kind = "str" /\ ~Matches(cells[i].v, fmt)

\* one cell of pd.to_datetime(df['timestamp'], utc=True)
to_datetime_utc(cell) == IF cell.kind = "str" THEN Datetime(cell.v, TRUE) ELSE NaT

\* one cell of pd.to_datetime(df['timestamp']), with or without a format
to_datetime(cell) == IF cell.kind = "str" THEN Datetime(cell.v, FALSE) ELSE NaT

\* transform_to_canonical_format: the timestamp column after the try (the
\* default parse) and, when that raised, after the loop over the fallback
\* formats, which stops at the first format that does not raise and
\* leaves the column as it was when every format raises
RECURSIVE TryFormats(_, _)
TryFormats(cells, k) ==
    IF k > Len(FallbackFormats) THEN cells
    ELSE IF ToDatetimeFormatRaises(cells, FallbackFormats[k]) THEN TryFormats(cells, k + 1)
    ELSE [i \in 1..Len(cells) |-> to_datetime(cells[i])]

ParseTimestamps(cells) ==
    IF ToDatetimeRaises(cells) THEN TryFormats(cells, 1)
    ELSE [i \in 1..Len(cells) |-> to_datetime_utc(cells[i])]

\* pd.to_numeric(df['cost'], errors='coerce').fillna(0.0)
to_numeric(cell) == IF cell.kind = "float" THEN cell ELSE Float(0)

RECURSIVE AddOptional(_, _)
AddOptional(df, k) ==
    IF k > Len(OPTIONAL_COLUMNS) THEN df
    ELSE AddOptional(IF HasColumn(df, OPTIONAL_COLUMNS[k].col) THEN df
                     ELSE AddColumn(df, OPTIONAL_COLUMNS[k].col,
                                    OPTIONAL_COLUMNS[k].default_value),
                     k + 1)

\* transform_to_canonical_format(df).  Every label is a str here:
\* validate_event_log_schema has raised on any other, before this is called
transform_to_canonical_format(df) ==
    LET named == [df EXCEPT !.columns = [k \in 1..Len(df.columns) |-> Normalize(df.columns[k])]]
        timed == IF HasColumn(named, REQUIRED_COLUMNS[3])
                 THEN SetColumn(named, REQUIRED_COLUMNS[3],
                                ParseTimestamps(Column(named, REQUIRED_COLUMNS[3])))
                 ELSE named
        filled == AddOptional(timed, 1)
    IN IF HasColumn(filled, OPTIONAL_COLUMNS[2].col)
       THEN SetColumn(filled, OPTIONAL_COLUMNS[2].col,
                      [i \in 1..Len(filled.rows) |->
                          to_numeric(Column(filled, OPTIONAL_COLUMNS[2].col)[i])])
       ELSE filled

\* process_structured_file: the optional columns it adds before it hands
\* the rows to db.insert_events
FileDefaults ==
    <<[col |-> OPTIONAL_COLUMNS[1].col, default_value |-> None],
      [col |-> OPTIONAL_COLUMNS[2].col, default_value |-> Float(0)],
      [col |-> OPTIONAL_COLUMNS[3].col, default_value |-> None],
      [col |-> OPTIONAL_COLUMNS[4].col, default_value |-> None]>>

RECURSIVE AddFileDefaults(_, _)
AddFileDefaults(df, k) ==
    IF k > Len(FileDefaults) THEN df
    ELSE AddFileDefaults(IF HasColumn(df, FileDefaults[k].col) THEN df
                         ELSE AddColumn(df, FileDefaults[k].col, FileDefaults[k].default_value),
                         k + 1)

\* process_structured_file: missing_columns = [col for col in
\* required_columns if col not in df.columns]
missing_columns(columns) ==
    SelectSeq(REQUIRED_COLUMNS, LAMBDA col : ~\E k \in 1..Len(columns) : columns[k] = col)

NoError == [type |-> "none"]

\* the exception pd.to_datetime raises on a text that is no date
DateParseError == [type |-> "ValueError", msg |-> "Unknown datetime string format"]

\* metrics is not assigned until the frame has been transformed
NoMetrics == [computed |-> FALSE]

\* Series.nunique(): the distinct cells that are not null
nunique(cells) == Cardinality({cells[i] : i \in {j \in 1..Len(cells) : ~IsNull(cells[j])}})

\* process_structured_data: metrics = {...}
Metrics(df) ==
    [computed |-> TRUE,
     total_events |-> Len(df.rows),
     unique_cases |-> nunique(Column(df, REQUIRED_COLUMNS[1])),
     unique_activities |-> nunique(Column(df, REQUIRED_COLUMNS[2]))]

\* df['timestamp'].min().isoformat() on a frame with rows: what it raises.
\* On parsed timestamps min() is a Timestamp or NaT and nothing is raised.
\* On a column still holding texts min() is a str, which has no isoformat
\* (AttributeError); when the column also holds NaN, min() itself compares
\* a str with a float and may raise TypeError before that.
DateRangeRaises(df) ==
    LET cells == Column(df, REQUIRED_COLUMNS[3])
        texts == \E i \in 1..Len(cells) : cells[i].kind = "str"
        nans == \E i \in 1..Len(cells) : cells[i].kind = "nan"
    IN IF ~texts THEN {}
       ELSE IF nans THEN {"AttributeError", "TypeError"}
       ELSE {"AttributeError"}

\* process_structured_file: column_mapping
column_mapping ==
    <<[from |-> <<"c", "a", "s", "e", ":", "c", "o", "n", "c", "e", "p", "t", ":", "n", "a", "m", "e">>,
       to |-> REQUIRED_COLUMNS[1]],
      [from |-> <<"c", "o", "n", "c", "e", "p", "t", ":", "n", "a", "m", "e">>, to |-> REQUIRED_COLUMNS[2]],
      [from |-> <<"t", "i", "m", "e", ":", "t", "i", "m", "e", "s", "t", "a", "m", "p">>,
       to |-> REQUIRED_COLUMNS[3]],
      [from |-> <<"o", "r", "g", ":", "r", "e", "s", "o", "u", "r", "c", "e">>, to |-> OPTIONAL_COLUMNS[1].col]>>

\* df.rename(columns=column_mapping, errors='ignore')
rename(df) ==
    [df EXCEPT !.columns =
        [k \in 1..Len(df.columns) |->
            IF \E m \in 1..Len(column_mapping) : column_mapping[m].from = df.columns[k]
            THEN column_mapping[CHOOSE m \in 1..Len(column_mapping) :
                                    column_mapping[m].from = df.columns[k]].to
            ELSE df.columns[k]]]

\* ValueError(f"Missing required columns: ...") naming cols
MissingRequiredColumns(cols) ==
    [type |-> "ValueError", msg |-> "Missing required columns", cols |-> cols]

\* process_structured_data(file_bytes, filename) or process_structured_file(
\* file_path, ...) has just read the table t from its file
TableCall(fn, t) ==
    [pc |-> "called", fn |-> fn, input |-> t, df |-> t, missing |-> <<>>,
     metrics |-> NoMetrics, error |-> NoError]

TableInit ==
    /\ IngestInit
    /\ router = NoCall
    /\ chunker = NoCall
    /\ batcher = NoCall
    /\ service = NoCall
    /\ table \in {TableCall(fn, t) :
                    fn \in {"process_structured_data", "process_structured_file"},
                    t \in Tables}

\* process_structured_data: is_valid, missing_cols =
\* validate_event_log_schema(df); if not is_valid: raise ValueError(...).
\* An exception raised by validate_event_log_schema itself leaves
\* missing_cols unassigned and goes through "except Exception: raise"
ValidateSchema ==
    /\ table.pc = "called" /\ table.fn = "process_structured_data"
    /\ LET result == validate_event_log_schema(table.df.columns)
       IN table' = IF result.raised # "none"
                   THEN [table EXCEPT !.pc = "raised", !.error = [type |-> result.raised]]
                   ELSE IF result.is_valid
                   THEN [table EXCEPT !.pc = "sanitize", !.missing = result.missing]
                   ELSE [table EXCEPT !.pc = "raised", !.missing = result.missing,
                                      !.error = MissingRequiredColumns(result.missing)]
    /\ UNCHANGED <<status, statusLog, store, files, req, router, chunker, batcher, service>>

\* process_structured_data: df = sanitize_dataframe(df)
SanitizeDataframe ==
    /\ table.pc = "sanitize"
    /\ table' = [table EXCEPT !.pc = "transform", !.df = sanitize_dataframe(@)]
    /\ UNCHANGED <<status, statusLog, store, files, req, router, chunker, batcher, service>>

\* process_structured_data: df = transform_to_canonical_format(df)
TransformToCanonical ==
    /\ table.pc = "transform"
    /\ table' = [table EXCEPT !.pc = "metrics", !.df = transform_to_canonical_format(@)]
    /\ UNCHANGED <<status, statusLog, store, files, req, router, chunker, batcher, service>>

\* process_structured_data: the metrics and return df, metrics; an
\* exception raised on the way is logged and raised again
CalculateMetrics ==
    /\ table.pc = "metrics"
    /\ IF Len(table.df.rows) > 0 /\ DateRangeRaises(table.df) # {}
       THEN \E exc \in DateRangeRaises(table.df) :
               table' = [table EXCEPT !.pc = "raised", !.error = [type |-> exc]]
       ELSE table' = [table EXCEPT !.pc = "returned", !.metrics = Metrics(table.df)]
    /\ UNCHANGED <<status, statusLog, store, files, req, router, chunker, batcher, service>>

\* process_structured_file: the required-column check on the file's table
FileValidate ==
    /\ table.pc = "called" /\ table.fn = "process_structured_file"
    /\ LET missing == missing_columns(table.df.columns)
       IN table' = IF Len(missing) = 0
                   THEN [table EXCEPT !.pc = "fill", !.missing = missing]
                   ELSE [table EXCEPT !.pc = "raised", !.missing = missing,
                                      !.error = MissingRequiredColumns(missing)]
    /\ UNCHANGED <<status, statusLog, store, files, req, router, chunker, batcher, service>>

\* process_structured_file: the renaming of the alias columns,
\* pd.to_datetime, the optional columns, and events = df.to_dict('records')
\* as handed to db.insert_events
FileFill ==
    /\ table.pc = "fill"
    /\ LET renamed == rename(table.df)
           cells == Column(renamed, REQUIRED_COLUMNS[3])
       IN table' = IF ToDatetimeRaises(cells)
                   THEN [table EXCEPT !.pc = "raised", !.df = renamed,
                                      !.error = DateParseError]
                   ELSE [table EXCEPT !.pc = "returned",
                            !.df = AddFileDefaults(
                                      SetColumn(renamed, REQUIRED_COLUMNS[3],
                                                [i \in 1..Len(cells) |-> to_datetime(cells[i])]),
                                      1)]
    /\ UNCHANGED <<status, statusLog, store, files, req, router, chunker, batcher, service>>

TableNext ==
    \/ ValidateSchema
    \/ SanitizeDataframe
    \/ TransformToCanonical
    \/ CalculateMetrics
    \/ FileValidate
    \/ FileFill

TableSpec == TableInit /\ [][TableNext]_vars


\* ------------------- the embedding loops of file_processors_complete.py
MaxItems == 3
MaxBatch == 3

\* batch_size = 100 (events) and batch_size = 50 (chunks) in the code; the
\* loops are run here with every batch size of BatchSizes, so that batch
\* boundaries fall inside inputs of at most MaxItems items
BatchSizes == 1..MaxBatch

CaseIds == {"c1", "c2"}
BatchInputs == SeqsUpTo(CaseIds, MaxItems)

\* event_ids = db.execute(SELECT id, case_id, ... ORDER BY id DESC LIMIT %s)
\* after the events were inserted into an empty table: newest row first
EventIdsOf(events) ==
    [k \in 1..Len(events) |->
        [id |-> Len(events) + 1 - k, case_id |-> events[Len(events) + 1 - k]]]

TypeError == [type |-> "TypeError"]

BatcherIdle ==
    [pc |-> "idle", fn |-> "none", batch_size |-> 0, event_ids |-> <<>>,
     content_text |-> <<>>, i |-> 0, batch |-> <<>>, embeddings |-> <<>>,
     j |-> 0, rows |-> <<>>, embeddings_created |-> 0, error |-> NoError]

\* process_structured_file has stored its events and selected event_ids
\* (line 91); process_unstructured_file has extracted a text that is not
\* empty (line 173)
BatchCall(fn, items, batch_size) ==
    [BatcherIdle EXCEPT !.pc = "called", !.fn = fn, !.batch_size = batch_size,
                        !.event_ids = IF fn = "process_structured_file"
                                      THEN EventIdsOf(items) ELSE <<>>,
                        !.content_text = IF fn = "process_unstructured_file"
                                         THEN items ELSE <<>>]

BatchInit ==
    /\ IngestInit
    /\ router = NoCall
    /\ table = NoCall
    /\ chunker = NoCall
    /\ service = NoCall
    /\ batcher \in {BatchCall(fn, items, batch_size) :
                      fn \in {"process_structured_file"}, items \in BatchInputs,
                      batch_size \in BatchSizes}
                   \cup
                   {BatchCall(fn, items, batch_size) :
                      fn \in {"process_unstructured_file"},
                      items \in BatchInputs \ {<<>>}, batch_size \in BatchSizes}

\* process_structured_file: embeddings_created = 0; batch_size = ...
EventLoopEnter ==
    /\ batcher.pc = "called" /\ batcher.fn = "process_structured_file"
    /\ batcher' = [batcher EXCEPT !.pc = "loop", !.i = 0, !.embeddings_created = 0]
    /\ UNCHANGED <<status, statusLog, store, files, req, router, table, chunker, service>>

\* for i in range(0, len(event_ids), batch_size): batch = event_ids[i:i +
\* batch_size]; event_texts = [create_event_summary(event) for event in batch];
\* embeddings = embedding_service.embed_batch(event_texts).  After the last
\* batch: return {..., 'embeddings_created': embeddings_created}
EventLoopBatch ==
    /\ batcher.pc = "loop"
    /\ IF batcher.i < Len(batcher.event_ids)
       THEN LET batch == PySlice(batcher.event_ids, batcher.i,
                                 batcher.i + batcher.batch_size)
                event_texts == [k \in 1..Len(batch) |-> create_event_summary(batch[k])]
            IN batcher' = [batcher EXCEPT !.batch = batch,
                                          !.embeddings = embed_batch(event_texts),
                                          !.j = 0, !.pc = "store"]
       ELSE batcher' = [batcher EXCEPT !.pc = "returned", !.batch = <<>>,
                                       !.embeddings = <<>>]
    /\ UNCHANGED <<status, statusLog, store, files, req, router, table, chunker, service>>

\* for event_record, embedding in zip(batch, embeddings):
\*     db.insert_event_embedding(project_id, event_record['id'],
\*         create_event_summary(event_record), embedding)
\*     embeddings_created += 1
EventLoopStore ==
    /\ batcher.pc = "store"
    /\ IF batcher.j < Min(Len(batcher.batch), Len(batcher.embeddings))
       THEN LET event_record == batcher.batch[batcher.j + 1]
                embedding == batcher.embeddings[batcher.j + 1]
            IN batcher' = [batcher EXCEPT
                   !.rows = Append(@, [event_id |-> event_record.id,
                                       event_text |-> create_event_summary(event_record),
                                       embedding |-> embedding]),
                   !.embeddings_created = @ + 1,
                   !.j = @ + 1]
       ELSE batcher' = [batcher EXCEPT !.i = @ + batcher.batch_size, !.pc = "loop"]
    /\ UNCHANGED <<status, statusLog, store, files, req, router, table, chunker, service>>

\* process_unstructured_file: document_id = db.insert_document(project_id=...,
\* filename=..., ...) raises TypeError, Database.insert_document has no such
\* parameters.  Neither chunks = chunk_text(...) (which would raise
\* UnboundLocalError, chunk_text being a local of the function bound only by
\* the batch loop) nor the batch loop is reached
ChunkLoopEnter ==
    /\ batcher.pc = "called" /\ batcher.fn = "process_unstructured_file"
    /\ batcher' = [batcher EXCEPT !.pc = "raised", !.error = TypeError]
    /\ UNCHANGED <<status, statusLog, store, files, req, router, table, chunker, service>>

BatchNext ==
    \/ EventLoopEnter
    \/ EventLoopBatch
    \/ EventLoopStore
    \/ ChunkLoopEnter

BatchSpec == BatchInit /\ [][BatchNext]_vars

\* ----------------------------------------------------- EmbeddingService
MaxThreads == 2
MaxCalls == 2

\* the threads that call the one EmbeddingService of the process
Threads == 1..MaxThreads

ServiceMethods == {"load_model", "embed_text", "embed_batch"}

ThreadIdle == [pc |-> "idle", fn |-> "none", calls |-> 0, used |-> 0]

\* EmbeddingService.__init__: self.model = None.  model is 0 for None and
\* otherwise the number of the SentenceTransformer instance it refers to;
\* constructed counts the instances that were built
NewService == [model |-> 0, constructed |-> 0, threads |-> [t \in Threads |-> ThreadIdle]]

ServiceInit ==
    /\ IngestInit
    /\ router = NoCall
    /\ table = NoCall
    /\ chunker = NoCall
    /\ batcher = NoCall
    /\ service = NewService

\* the call leaves the method, by return or by an exception
ServiceReturn(t) ==
    [service.threads[t] EXCEPT !.pc = "idle", !.calls = @ + 1]

\* load_model() returns: to its caller embed_text / embed_batch, or out
AfterLoad(t) ==
    IF service.threads[t].fn = "load_model" THEN ServiceReturn(t)
    ELSE [service.threads[t] EXCEPT !.pc = "encode"]

\* a thread calls load_model(), embed_text(text) or embed_batch(texts)
ServiceCall(t, fn) ==
    /\ service.threads[t].pc = "idle"
    /\ service.threads[t].calls < MaxCalls
    /\ service' = [service EXCEPT !.threads[t] =
                      [@ EXCEPT !.fn = fn, !.used = 0,
                                !.pc = IF fn = "load_model" THEN "load_check"
                                                            ELSE "embed_check"]]
    /\ UNCHANGED <<status, statusLog, store, files, req, router, table, chunker, batcher>>

\* embed_text / embed_batch: if self.model is None: self.load_model()
EmbedCheck(t) ==
    /\ service.threads[t].pc = "embed_check"
    /\ service' = [service EXCEPT !.threads[t].pc =
                      IF service.model = 0 THEN "load_check" ELSE "encode"]
    /\ UNCHANGED <<status, statusLog, store, files, req, router, table, chunker, batcher>>

\* load_model: if self.model is None: (no lock is held from here on)
LoadCheck(t) ==
    /\ service.threads[t].pc = "load_check"
    /\ service' = [service EXCEPT !.threads[t] =
                      IF service.model = 0 THEN [@ EXCEPT !.pc = "construct"]
                      ELSE AfterLoad(t)]
    /\ UNCHANGED <<status, statusLog, store, files, req, router, table, chunker, batcher>>

\* self.model = SentenceTransformer(self.model_name); when the constructor
\* raises, load_model logs and re-raises and self.model stays None
Construct(t, ok) ==
    /\ service.threads[t].pc = "construct"
    /\ service' = IF ok
                  THEN [service EXCEPT !.model = service.constructed + 1,
                                       !.constructed = @ + 1,
                                       !.threads[t].pc = "verify"]
                  ELSE [service EXCEPT !.threads[t] = ServiceReturn(t)]
    /\ UNCHANGED <<status, statusLog, store, files, req, router, table, chunker, batcher>>

\* test_embedding = self.model.encode("test"); self.embedding_dim = len(...);
\* when the test raises, load_model re-raises and self.model stays set
VerifyDimension(t, ok) ==
    /\ service.threads[t].pc = "verify"
    /\ service' = [service EXCEPT !.threads[t] =
                      IF ok THEN AfterLoad(t) ELSE ServiceReturn(t)]
    /\ UNCHANGED <<status, statusLog, store, files, req, router, table, chunker, batcher>>

\* embedding = self.model.encode(...): the instance self.model refers to now
Encode(t) ==
    /\ service.threads[t].pc = "encode"
    /\ service' = [service EXCEPT !.threads[t] =
                      [ServiceReturn(t) EXCEPT !.used = service.model]]
    /\ UNCHANGED <<status, statusLog, store, files, req, router, table, chunker, batcher>>

ServiceNext ==
    \/ \E t \in Threads, fn \in ServiceMethods : ServiceCall(t, fn)
    \/ \E t \in Threads : EmbedCheck(t)
    \/ \E t \in Threads : LoadCheck(t)
    \/ \E t \in Threads, ok \in BOOLEAN : Construct(t, ok)
    \/ \E t \in Threads, ok \in BOOLEAN : VerifyDimension(t, ok)
    \/ \E t \in Threads : Encode(t)

ServiceSpec == ServiceInit /\ [][ServiceNext]_vars

\* ------------------------------------------------------------ properties
Done(r) == req[r].pc = "done"

Has(seq, v) == \E k \in 1..Len(seq) : seq[k] = v

RECURSIVE IsSubseq(_, _)
IsSubseq(s, t) ==
    IF Len(s) = 0 THEN TRUE
    ELSE IF Len(t) = 0 THEN FALSE
    ELSE IF Head(s) = Head(t) THEN IsSubseq(Tail(s), Tail(t))
    ELSE IsSubseq(s, Tail(t))

RowsBy(r) == {k \in 1..Len(event_logs) : event_logs[k].by = r}
EmbeddingsBy(r) == {e \in event_embeddings : e.by = r}
DocsBy(r) == {d \in 1..Len(documents) : documents[d].by = r}
ChunksOf(d) == {c \in document_chunks : c.document_id = d}

\* C1: an upload handler writes completed only after every step of its
\* ingestion has succeeded.  A request that wrote completed had no exception
\* and no failed call; if structured, the rows it inserted are the rows it
\* was sent, and for each of them an embedding is stored, keyed to that row
\* and carrying its summary text and the embedding of that text; if
\* unstructured, its Document row exists, the chunks 0..n-1 (n >= 1) are
\* stored with their embeddings and chunk_count is n.
C1_CompletedOnlyAfterSuccess ==
    \A r \in Requests :
        Has(req[r].wrote, "completed") =>
            /\ ~req[r].raised
            /\ ~req[r].fault
            /\ req[r].kind = "structured" =>
                /\ Cardinality(RowsBy(r)) = req[r].n
                /\ \A k \in RowsBy(r) :
                      /\ event_logs[k].project_id = req[r].project
                      /\ \E e \in event_embeddings :
                            /\ e.event_id = k
                            /\ e.event_text = [case |-> event_logs[k].case_id]
                            /\ e.embedding = [of |-> e.event_text]
            /\ req[r].kind = "unstructured" =>
                /\ Cardinality(DocsBy(r)) = 1
                /\ \A d \in DocsBy(r) :
                      /\ documents[d].chunk_count >= 1
                      /\ documents[d].chunk_count = Cardinality(ChunksOf(d))
                      /\ {c.chunk_index : c \in ChunksOf(d)} =
                             0..(documents[d].chunk_count - 1)
                      /\ \A c \in ChunksOf(d) : c.embedding = [of |-> c.chunk_text]

\* C2: every exception raised while an ingestion is processed ends with the
\* project's status set to failed and an error answered
C2_ExceptionSetsFailed ==
    \A r \in Requests :
        (Done(r) /\ req[r].raised /\ req[r].resp # 0) =>
            /\ req[r].resp = 500
            /\ Has(req[r].wrote, "failed")

\* C3 as stated: the values a project's status takes are, in order, a
\* subsequence of pending, processing, completed or of pending, processing,
\* failed
C3_ProjectStatusMonotone ==
    \A p \in Projects :
        \/ IsSubseq(statusLog[p], <<"pending", "processing", "completed">>)
        \/ IsSubseq(statusLog[p], <<"pending", "processing", "failed">>)

\* C3 as amended: the statuses written by one ingestion are, in order, a
\* subsequence of processing, completed or of processing, failed; completed
\* is never written after failed by the same ingestion
C3_IngestionStatusMonotone ==
    \A r \in Requests :
        \/ IsSubseq(req[r].wrote, <<"processing", "completed">>)
        \/ IsSubseq(req[r].wrote, <<"processing", "failed">>)

\* one upload of a project went processing, failed and a later one went
\* processing, completed: the project shows completed after failed
C3_Witness ==
    \E r, q \in Requests :
        /\ r # q
        /\ req[r].project = req[q].project
        /\ req[r].wrote = <<"processing", "failed">>
        /\ req[q].wrote = <<"processing", "completed">>
        /\ statusLog[req[r].project] =
               <<DefaultStatus, "processing", "failed", "processing", "completed">>

\* C4: every change of a project's status to completed or to failed happens
\* while the status is processing
C4_NoSkipProcessing ==
    [][\A p \in Projects :
          (status'[p] # status[p] /\ status'[p] \in {"completed", "failed"})
              => status[p] = "processing"]_vars

\* C5: once an ingestion has ended with the project set to failed, none of
\* the rows it wrote is in the store
C5_FailedLeavesNoRows ==
    \A r \in Requests :
        (Done(r) /\ Has(req[r].wrote, "failed")) =>
            /\ RowsBy(r) = {}
            /\ EmbeddingsBy(r) = {}
            /\ DocsBy(r) = {}

\* the ingestion of r has set its project to processing and has not ended
Ingesting(r) == Has(req[r].wrote, "processing") /\ ~Done(r)

\* C6: two ingestions of the same project are never under way at once
C6_Serialized ==
    \A r, q \in Requests :
        (r # q /\ req[r].project = req[q].project) => ~(Ingesting(r) /\ Ingesting(q))

\* C7: an ingestion that set its project to processing does not end without
\* setting it to completed or to failed
C7_NeverStuckProcessing ==
    \A r \in Requests :
        (Done(r) /\ Has(req[r].wrote, "processing")) =>
            (Has(req[r].wrote, "completed") \/ Has(req[r].wrote, "failed"))

\* C8: the first status of a created project is pending
C8_NewProjectPending ==
    \A p \in Projects : Len(statusLog[p]) > 0 => statusLog[p][1] = "pending"

\* the extensions the endpoints accept
AcceptedByEndpoint(kind) ==
    IF kind = "structured" THEN {"csv", "xlsx", "xls"} ELSE {"txt", "docx", "pdf"}

Rejected(r) ==
    /\ req[r].pc # "idle"
    /\ Lower(req[r].ext) \notin AcceptedByEndpoint(req[r].kind)

\* C9: an upload whose extension the endpoint does not accept is answered
\* 400 at once; it writes no status, no file and no row
C9_RejectedUntouched ==
    \A r \in Requests :
        Rejected(r) =>
            /\ Done(r)
            /\ req[r].resp = 400
            /\ req[r].wrote = <<>>
            /\ \A f \in Paths : files[f].by # r
            /\ RowsBy(r) = {}
            /\ EmbeddingsBy(r) = {}
            /\ DocsBy(r) = {}

\* an .exe was sent to /upload/structured for an existing project
C9_Witness ==
    \E r \in Requests :
        /\ Rejected(r)
        /\ req[r].ext = "exe"
        /\ req[r].kind = "structured"
        /\ status[req[r].project] # "none"
        /\ req[r].resp = 400

\* the upload of a .txt file without text to the unstructured endpoint
EmptyTxt(r) ==
    /\ req[r].kind = "unstructured"
    /\ Lower(req[r].ext) = "txt"
    /\ req[r].n = 0

\* C10: the upload of an empty (or blank) .txt file to an existing project
\* fails with an error: the handler writes processing, then failed, answers
\* an error, persists no Document and no Chunk row and never writes completed
C10_EmptyTxtFails ==
    \A r \in Requests :
        (EmptyTxt(r) /\ Done(r) /\ req[r].resp # 404) =>
            /\ req[r].resp = 500
            /\ req[r].wrote = <<"processing", "failed">>
            /\ DocsBy(r) = {}
            /\ \A c \in document_chunks : documents[c.document_id].by # r

\* C11: POST /upload with a file (of allowed size, read in full) whose
\* extension is none of csv, xlsx, xls, txt, docx is answered 400 with a detail that says 'Unsupported file type',
\* and neither process_structured_log nor process_unstructured_doc is called
C11_UnsupportedIs400 ==
    (/\ router.pc = "done"
     /\ ~router.too_large
     /\ router.read = "bytes"
     /\ SplitLastLower(router.filename) \notin {"csv", "xlsx", "xls", "txt", "docx"})
        => /\ router.resp = 400
           /\ router.detail = "Unsupported file type"
           /\ router.called = {}

\* C12: a structured upload whose table lacks a required column is answered
\* as a client error, 400, never 5xx and never success (the store and the
\* file system answering, no other upload of the project under way)
C12_MissingColumnsIs400 ==
    \A r \in Requests :
        (/\ Done(r)
         /\ req[r].kind = "structured" /\ req[r].ext = "csv" /\ ~req[r].hdr
         /\ ~req[r].fault /\ ~req[r].overlapped
         /\ req[r].resp \notin {0, 404})
            => req[r].resp = 400

\* C13: after any sequence of structured ingestions into a project that did
\* not overlap and were all answered, whenever the project's status is
\* completed every stored event of the project has exactly one embedding,
\* keyed by the event's id and carrying the summary text of that event
C13_OneEmbeddingPerEvent ==
    \A p \in Projects :
        (/\ status[p] = "completed"
         /\ \A r \in Requests :
               req[r].pc # "idle" => Done(r) /\ ~req[r].overlapped /\ req[r].resp # 0)
            => \A k \in 1..Len(event_logs) :
                  event_logs[k].project_id = p =>
                      /\ Cardinality({e \in event_embeddings : e.event_id = k}) = 1
                      /\ \A e \in event_embeddings :
                            e.event_id = k =>
                                e.event_text = create_event_summary(event_logs[k])

\* C14: for every Document process_unstructured_file wrote, once the upload
\* has ended, the stored chunks of the document carry the indices 0..n-1, n
\* being the number of chunks the chunker makes of the document's text, the
\* chunk at index i is the chunker's i-th chunk, and when the ingestion
\* completed chunk_count is n.  (No behaviour stores a Document row:
\* db.insert_document raises in InsertDocument, so the formula holds of
\* every reachable state without a document to hold for.)
C14_ChunkIndexContiguous ==
    \A d \in 1..Len(documents) :
        Done(documents[d].by) =>
            LET chunks == chunk_text(documents[d].content_text, ChunkSize, ChunkOverlap)
            IN /\ {c.chunk_index : c \in ChunksOf(d)} = 0..(Len(chunks) - 1)
               /\ Cardinality(ChunksOf(d)) = Len(chunks)
               /\ \A c \in ChunksOf(d) : c.chunk_text = chunks[c.chunk_index + 1]
               /\ Has(req[documents[d].by].wrote, "completed") =>
                      documents[d].chunk_count = Len(chunks)

\* the chunker call has returned
Returned(fn) == chunker.pc = "returned" /\ chunker.fn = fn

\* C16: for every text, chunk_document returns at least one chunk and no
\* returned chunk is longer than chunk_size characters
C16_ChunkCountAndSize ==
    Returned("chunk_document") =>
        /\ Len(chunker.chunks) >= 1
        /\ \A k \in 1..Len(chunker.chunks) : Len(chunker.chunks[k]) <= chunker.chunk_size

\* a call of chunk_document returned several chunks, one of them from a window
\* that a sentence terminator cut short and one as long as chunk_size
C16_Witness ==
    /\ Returned("chunk_document")
    /\ Len(chunker.chunks) >= 2
    /\ \E k \in 1..Len(chunker.windows) :
          /\ chunker.windows[k][2] < Len(chunker.content)
          /\ chunker.windows[k][2] - chunker.windows[k][1] < chunker.chunk_size
    /\ \E k \in 1..Len(chunker.chunks) : Len(chunker.chunks[k]) = chunker.chunk_size

\* what chunk k of a returned chunk_document call adds to the chunks before
\* it: the characters it was cut from, without the first overlap of them
RECURSIVE Reconstruct(_)
Reconstruct(k) ==
    IF k = 0 THEN <<>>
    ELSE LET w == chunker.windows[k]
             taken == PySlice(chunker.content, w[1], w[2])
         IN Reconstruct(k - 1) \o
            (IF k = 1 THEN taken
             ELSE SubSeq(taken, Min(chunker.overlap, Len(taken)) + 1, Len(taken)))

\* C15: for every non-empty text and every 0 <= overlap < chunk_size, the
\* chunks chunk_document returns are cut from consecutive windows of the
\* text: the first starts at 0, each next one starts overlap characters
\* before the end of the one before, the last ends at the end of the text,
\* each chunk is its window up to white space at its edges, and the windows
\* without their overlapping regions, concatenated, are the text
C15_ChunkCoverage ==
    (/\ Returned("chunk_document")
     /\ Len(chunker.content) > 0
     /\ chunker.overlap < chunker.chunk_size)
        => LET w == chunker.windows
               n == Len(w)
           IN /\ n = Len(chunker.chunks)
              /\ w[1][1] = 0
              /\ \A k \in 2..n : w[k][1] = w[k - 1][2] - chunker.overlap
              /\ \A k \in 1..n : w[k][1] >= 0 /\ w[k][1] < w[k][2]
              /\ w[n][2] >= Len(chunker.content)
              /\ \A k \in 1..n :
                    Strip(chunker.chunks[k]) =
                        Strip(PySlice(chunker.content, w[k][1], w[k][2]))
              /\ Reconstruct(n) = chunker.content

\* C17: a chunker call with overlap >= chunk_size is rejected with a
\* configuration error before any chunk is produced
C17_OverlapRejected ==
    (chunker.pc \notin {"idle", "called"} /\ chunker.overlap >= chunker.chunk_size)
        => chunker.pc = "raised" /\ chunker.chunks = <<>>

\* the spellings of the column names, each with the name it stands for
SpelledAs ==
    {<<<<"c", "a", "s", "e", "_", "i", "d">>, REQUIRED_COLUMNS[1]>>,
     <<<<"C", "a", "s", "e", "_", "I", "D">>, REQUIRED_COLUMNS[1]>>,
     <<<<"C", "a", "s", "e", " ", "I", "D">>, REQUIRED_COLUMNS[1]>>,
     <<<<"a", "c", "t", "i", "v", "i", "t", "y">>, REQUIRED_COLUMNS[2]>>,
     <<<<"A", "c", "t", "i", "v", "i", "t", "y">>, REQUIRED_COLUMNS[2]>>,
     <<<<"t", "i", "m", "e", "s", "t", "a", "m", "p">>, REQUIRED_COLUMNS[3]>>,
     <<<<"T", "i", "m", "e", "S", "t", "a", "m", "p">>, REQUIRED_COLUMNS[3]>>,
     <<<<"r", "e", "s", "o", "u", "r", "c", "e">>, OPTIONAL_COLUMNS[1].col>>,
     <<<<"int", "2", "0", "2", "4">>, <<"int", "2", "0", "2", "4">>>>} \cup
    {<<column_mapping[m].from, column_mapping[m].from>> : m \in 1..Len(column_mapping)}

StandsFor(col) == (CHOOSE pair \in SpelledAs : pair[1] = col)[2]

\* the required columns no column of the table given stands for
Absent ==
    {col \in {REQUIRED_COLUMNS[k] : k \in 1..Len(REQUIRED_COLUMNS)} :
        ~\E k \in 1..Len(table.input.columns) : StandsFor(table.input.columns[k]) = col}

Elems(seq) == {seq[k] : k \in 1..Len(seq)}

\* C18: for every table, validate_event_log_schema reports as missing
\* exactly the required columns that no column name of the table is, once
\* lower-cased and with spaces replaced by underscores (each once), and
\* process_structured_data fails with 'Missing required columns', naming
\* exactly those columns, if and only if there is such a column
C18_MissingColumnsReported ==
    (table.pc \notin {"none", "called"} /\ table.fn = "process_structured_data")
        => /\ Elems(table.missing) = Absent
           /\ Len(table.missing) = Cardinality(Absent)
           /\ (Absent # {}) <=> (table.error = MissingRequiredColumns(table.missing))
           /\ Absent # {} => table.pc = "raised"

\* the cell of row i of df in the column named col
Cell(df, i, col) == Column(df, col)[i]

\* the rows of the table given that are not empty throughout, with the
\* columns under the names they stand for
KeptInput ==
    [columns |-> [k \in 1..Len(table.input.columns) |-> StandsFor(table.input.columns[k])],
     rows |-> SelectSeq(table.input.rows, LAMBDA row : \E k \in 1..Len(row) : row[k] # NaN)]

\* C19: for every table process_structured_data accepts, however its column
\* headers are spelled, every output row has a case_id and an activity that
\* are not null: where the table had no activity the row has 'Unknown
\* Activity', and where it had no case_id the row has 'Unknown Case'
C19_NoNullCaseOrActivity ==
    (table.pc = "returned" /\ table.fn = "process_structured_data")
        => /\ Len(table.df.rows) = Len(KeptInput.rows)
           /\ \A i \in 1..Len(table.df.rows) :
                /\ ~IsNull(Cell(table.df, i, REQUIRED_COLUMNS[1]))
                /\ ~IsNull(Cell(table.df, i, REQUIRED_COLUMNS[2]))
                /\ Cell(KeptInput, i, REQUIRED_COLUMNS[2]) = NaN
                       => Cell(table.df, i, REQUIRED_COLUMNS[2]) = Str(<<"U", "n", "k", "n", "o", "w", "n", " ", "A", "c", "t", "i", "v", "i", "t", "y">>)
                /\ Cell(KeptInput, i, REQUIRED_COLUMNS[1]) = NaN
                       => Cell(table.df, i, REQUIRED_COLUMNS[1]) = Str(<<"U", "n", "k", "n", "o", "w", "n", " ", "C", "a", "s", "e">>)

\* C20: a table with exactly the columns case_id, activity, timestamp is
\* taken without a validation error, by process_structured_data and by
\* process_structured_file alike, and every row that results (returned by
\* transform_to_canonical_format, handed to db.insert_events by
\* process_structured_file) has resource 'Unknown', cost 0.0, location ''
\* and product_type ''
C20_DefaultsFilled ==
    (table.pc \notin {"none", "called"} /\ table.input.columns = REQUIRED_COLUMNS)
        => /\ table.error # MissingRequiredColumns(table.missing)
           /\ table.pc = "returned"
                => \A i \in 1..Len(table.df.rows) : \A k \in 1..Len(OPTIONAL_COLUMNS) :
                      /\ HasColumn(table.df, OPTIONAL_COLUMNS[k].col)
                      /\ Cell(table.df, i, OPTIONAL_COLUMNS[k].col)
                            = OPTIONAL_COLUMNS[k].default_value

\* the rows of the table given whose timestamp is a text pd.to_datetime
\* cannot parse, by default or with a fallback format
Unparsable(cell) == cell.kind = "str" /\ ~Parses(Strip(cell.v))

\* C21: an unparsable timestamp is not fatal.  process_structured_data on a
\* table that has the required columns and a row whose timestamp cannot be
\* parsed returns, with every row kept, the unparsable timestamp null, and
\* the metrics computed
C21_UnparsableTimestampNonFatal ==
    (/\ table.pc \in {"raised", "returned"}
     /\ table.fn = "process_structured_data"
     /\ Absent = {}
     /\ \E i \in 1..Len(KeptInput.rows) : Unparsable(Cell(KeptInput, i, REQUIRED_COLUMNS[3])))
        => /\ table.pc = "returned"
           /\ table.metrics.computed
           /\ table.metrics.total_events = Len(KeptInput.rows)
           /\ Len(table.df.rows) = Len(KeptInput.rows)
           /\ \A i \in 1..Len(KeptInput.rows) :
                 Unparsable(Cell(KeptInput, i, REQUIRED_COLUMNS[3]))
                     => IsNull(Cell(table.df, i, REQUIRED_COLUMNS[3]))

\* C22: chunk_document and chunk_text terminate whenever 0 <= overlap <
\* chunk_size, because every pass through the loop that appends a chunk
\* moves the window start strictly forward (also when the window was cut
\* short at a sentence boundary)
C22_StartAdvances ==
    [][(/\ chunker.pc = "loop"
        /\ 0 <= chunker.overlap /\ chunker.overlap < chunker.chunk_size
        /\ Len(chunker'.chunks) > Len(chunker.chunks))
           => chunker'.start > chunker.start]_vars

\* what request r uploaded, as its loader reads it: the rows after the
\* header line of a structured file, the words of a document
Uploaded(r) ==
    IF req[r].kind = "structured"
    THEN Tail(Payload(r, req[r].kind, req[r].hdr, req[r].n))
    ELSE Payload(r, req[r].kind, req[r].hdr, req[r].n)

\* C23: what an upload handler parses is exactly what was uploaded in the
\* same request, also when another upload with the same filename to the
\* same project is in flight: the file the handler processes holds its own
\* content only
C23_ParsesOwnBytes ==
    \A r \in Requests :
        req[r].pc \in {"insert_events", "insert_document"} => req[r].events = Uploaded(r)

\* C24: a filename that passed the endpoint's extension check is recognised
\* by the loader it is handed to, whatever the letter case of its
\* extension: when a loader raises on its own (no failed file or store
\* call), it is because of what the file holds (no readable header row, no
\* text), never because of the extension
C24_AcceptedExtensionLoads ==
    [][\A r \in Requests :
          LET bytes == files[Path(req[r].kind, req[r].project, req[r].ext)].bytes
          IN /\ (req[r].pc = "load" /\ req'[r].pc = "except" /\ ~req'[r].fault)
                    => ~(Len(bytes) > 0 /\ bytes[1].ok)
             /\ (req[r].pc = "extract" /\ req'[r].pc = "except" /\ ~req'[r].fault)
                    => NoTextContent(bytes)]_vars

\* the table given has its required columns under their alias names (and
\* no other column but, possibly, the alias of resource)
AliasTable ==
    /\ Len(table.input.columns) >= 3
    /\ \A k \in 1..3 : table.input.columns[k] = column_mapping[k].from
    /\ \A k \in 4..Len(table.input.columns) : table.input.columns[k] = column_mapping[4].from

\* C25: the alias table is applied before validation.  A table whose
\* columns are case:concept:name, concept:name and time:timestamp (and
\* possibly org:resource) passes the required-column check of
\* process_structured_file, and its rows are handed to the store under the
\* names case_id, activity, timestamp and resource
C25_AliasesAccepted ==
    (/\ table.pc \in {"fill", "raised", "returned"}
     /\ table.fn = "process_structured_file"
     /\ AliasTable)
        => /\ table.error # MissingRequiredColumns(table.missing)
           /\ table.pc = "returned"
                => /\ \A k \in 1..3 : table.df.columns[k] = REQUIRED_COLUMNS[k]
                   /\ HasColumn(table.df, OPTIONAL_COLUMNS[1].col)
                   /\ \A k \in 1..Len(column_mapping) :
                         ~HasColumn(table.df, column_mapping[k].from)

\* the words of a text, as str.split() gives them
WordsOf(text) == Split(text, <<>>, <<>>)

\* C26: chunk_text loses no word.  Words left after the last full window
\* that are too few to stand alone (at most overlap / 2 of them) are merged
\* into the chunk before, so every word of the text is a word of some
\* chunk returned, and the last chunk ends with the last word of the text
C26_NoWordLost ==
    (Returned("chunk_text") /\ Len(WordsOf(chunker.content)) > 0)
        => LET words == WordsOf(chunker.content)
               n == Len(chunker.chunks)
           IN /\ n > 0
              /\ \A w \in 1..Len(words) :
                    \E k \in 1..n : \E j \in 1..Len(WordsOf(chunker.chunks[k])) :
                        WordsOf(chunker.chunks[k])[j] = words[w]
              /\ LET last == WordsOf(chunker.chunks[n])
                 IN Len(last) > 0 /\ last[Len(last)] = words[Len(words)]

\* the ends, within a window, of the terminators that start in its final
\* 30%
TerminatorEnds(window, chunk_size) ==
    {p + Len(Separators[k]) :
        <<p, k>> \in {q \in (0..Len(window)) \X (1..Len(Separators)) :
                        /\ 10 * q[1] > 7 * chunk_size
                        /\ q[1] + Len(Separators[q[2]]) <= Len(window)
                        /\ SubSeq(window, q[1] + 1, q[1] + Len(Separators[q[2]]))
                               = Separators[q[2]]}}

\* C27: in chunk_document every window that does not reach the end of the
\* text ends immediately after the last terminator ('. ', '.\n', '! ' or
\* '?\n', whichever comes last) that lies in the final 30% of the
\* chunk_size characters from its start, and is exactly chunk_size
\* characters long when no terminator lies there
C27_CutAtLastTerminator ==
    (chunker.fn = "chunk_document" /\ chunker.pc \in {"loop", "returned"})
        => \A k \in 1..Len(chunker.windows) :
              LET start == chunker.windows[k][1]
                  end == chunker.windows[k][2]
                  ends == TerminatorEnds(PySlice(chunker.content, start,
                                                 start + chunker.chunk_size),
                                         chunker.chunk_size)
              IN (start >= 0 /\ start + chunker.chunk_size < Len(chunker.content))
                    => end = start + (IF ends = {} THEN chunker.chunk_size ELSE Max(ends))

\* the rows a run writes when each text is embedded on its own: one row per
\* input, in input order
ExpectedEventRows ==
    [k \in 1..Len(batcher.event_ids) |->
        [event_id |-> batcher.event_ids[k].id,
         event_text |-> create_event_summary(batcher.event_ids[k]),
         embedding |-> embed_text(create_event_summary(batcher.event_ids[k]))]]

ExpectedChunkRows ==
    LET chunks == chunk_text(batcher.content_text, ChunkSize, ChunkOverlap)
    IN [k \in 1..Len(chunks) |->
          [chunk_index |-> k - 1, chunk_text |-> chunks[k],
           embedding |-> embed_text(chunks[k])]]

\* C28: batch boundaries do not affect what is stored.  For every batch size
\* >= 1 a finished run of process_structured_file has written one (event_id,
\* summary text, embedding) row per event and a finished run of
\* process_unstructured_file one (chunk_index, chunk_text, embedding) row per
\* chunk, each text paired with its own embedding, in input order.
C28_BatchSizeIrrelevant ==
    batcher.pc \in {"returned", "raised"} =>
        /\ batcher.pc = "returned"
        /\ batcher.fn = "process_structured_file" => batcher.rows = ExpectedEventRows
        /\ batcher.fn = "process_unstructured_file" => batcher.rows = ExpectedChunkRows

\* C29: over any sequence or interleaving of load_model, embed_text and
\* embed_batch calls on one EmbeddingService the model is constructed once at
\* most, and a call that embeds uses the one instance that was constructed.
C29_ModelConstructedOnce ==
    /\ service.constructed <= 1
    /\ \A t \in Threads : service.threads[t].used \in {0, 1}

\* the positions at which a handler writes to the store
StoreWrites ==
    {"set_processing", "insert_events", "insert_event_embedding", "file_info",
     "insert_document", "set_completed"}

\* C30: a storage write that fails during an ingestion is retried once.  The
\* first failure of a write leaves the handler at that write, to try it
\* again; it does not hand control to the except clause, which marks the
\* project failed and answers with the error.
C30_FailedWriteRetried ==
    [][\A r \in Requests :
         (req[r].pc \in StoreWrites /\ ~req[r].fault /\ req'[r].fault)
             => req'[r].pc = req[r].pc]_vars

====
